---- MODULE Spec2Model ----
\* The SQUID decision daemon (src/python-ia/ipc_daemon.py) with the metric
\* calculators and the policy engine (squid_formulas.py) and the rotation
\* planner (decision_engine.py) it calls.
\*
\* Numbers.  Python floats are modelled in fixed point:
\*   sr, c                  ten-thousandths   (One = 1.0)
\*   risk                   1e-5
\*   rotation_percentage,
\*   decoy rate             1e-7
\*   confidence             1e-6
\*   entropy budget         hundredths        (InitialBudget = 100.0)
\*   raw metric scores      thousandths, saturated at RawCap
\* so the rounding error of binary floating point is not part of the model.
EXTENDS Integers, Sequences, FiniteSets, TLC

VARIABLES
  budget,    \* ENTROPY_BUDGET, the module global of ipc_daemon.py
  prev,      \* ENTROPY_BUDGET as it was before the last line was handled
  msg,       \* the last input line handled by run_daemon
  resp,      \* the response line written for it
  memo,      \* an earlier decide exchange or call, kept for comparison
  pc,        \* per thread: its position in run_daemon / handle_decide
  frame,     \* per thread: the locals of its handle_decide call
  deducted,  \* sum of the deductions made by the decide calls so far
  call,      \* a call of one of the library functions: its name and arguments
  ret,       \* what that call returned or raised
  rng,       \* the state of NumPy's process-wide generator (np.random)
  stdin,     \* the kinds of the lines run_daemon has read so far
  stdout,    \* the response lines run_daemon has written so far
  decisions  \* decisions returned while ACTIVE, counted in SpecCount only

vars == <<budget, prev, msg, resp, memo, pc, frame, deducted,
          call, ret, rng, stdin, stdout, decisions>>

--------------------------------------------------------------------------
\* Program constants

\* ENTROPY_BUDGET = 100.0
InitialBudget == 10000
\* the 0.5 of "0.5 + 0.01 * rotation_count"
DecisionCost == 50
\* the 0.01 of "0.5 + 0.01 * rotation_count"
RotationCost == 1
\* seed_val = 42 when locked
FallbackSeed == 42
\* random.Random(0) when plan_rotations gets no seed
PlannerDefaultSeed == 0
\* 1.0 as a metric value
One == 10000
\* raw scores at or beyond 1e6 normalise to 1.0 within the model's resolution
RawCap == 1000000000
\* Python's None for seed_model_hash / seed
NoSeed == -1
\* a features value that has no len()
Unsized == -1

\* Bounds of the model
\* the number of leaf features of a non-empty decide request
NumLeaves == 27

Min(a, b) == IF a <= b THEN a ELSE b
Max(a, b) == IF a >= b THEN a ELSE b
Abs(a) == IF a >= 0 THEN a ELSE 0 - a
CeilDiv(a, b) == (a + b - 1) \div b

--------------------------------------------------------------------------
\* Library randomness

\* random.Random(seed).shuffle(list(range(n))): the order the Mersenne Twister
\* of CPython leaves the identity list in, listed for the seeds and list
\* lengths that occur in the model.
RandomShuffle(seed, n) ==
  CASE seed = 0 /\ n = 1 ->
       <<0>>
    [] seed = 7 /\ n = 1 ->
       <<0>>
    [] seed = 42 /\ n = 1 ->
       <<0>>
    [] seed = 0 /\ n = 2 ->
       <<0, 1>>
    [] seed = 7 /\ n = 2 ->
       <<0, 1>>
    [] seed = 42 /\ n = 2 ->
       <<1, 0>>
    [] seed = 0 /\ n = 3 ->
       <<0, 2, 1>>
    [] seed = 7 /\ n = 3 ->
       <<2, 0, 1>>
    [] seed = 42 /\ n = 3 ->
       <<1, 0, 2>>
    [] seed = 0 /\ n = 4 ->
       <<2, 0, 1, 3>>
    [] seed = 7 /\ n = 4 ->
       <<3, 1, 0, 2>>
    [] seed = 42 /\ n = 4 ->
       <<2, 1, 3, 0>>
    [] seed = 0 /\ n = 5 ->
       <<2, 1, 0, 4, 3>>
    [] seed = 7 /\ n = 5 ->
       <<4, 0, 3, 1, 2>>
    [] seed = 42 /\ n = 5 ->
       <<3, 1, 2, 4, 0>>
    [] seed = 0 /\ n = 6 ->
       <<4, 2, 1, 0, 5, 3>>
    [] seed = 7 /\ n = 6 ->
       <<4, 0, 5, 3, 1, 2>>
    [] seed = 42 /\ n = 6 ->
       <<3, 1, 2, 4, 0, 5>>
    [] seed = 0 /\ n = 7 ->
       <<4, 2, 1, 0, 5, 3, 6>>
    [] seed = 7 /\ n = 7 ->
       <<5, 6, 4, 0, 3, 1, 2>>
    [] seed = 42 /\ n = 7 ->
       <<1, 3, 4, 2, 6, 0, 5>>
    [] seed = 0 /\ n = 10 ->
       <<7, 8, 1, 5, 3, 4, 2, 0, 9, 6>>
    [] seed = 7 /\ n = 10 ->
       <<8, 3, 1, 4, 7, 0, 9, 6, 2, 5>>
    [] seed = 42 /\ n = 10 ->
       <<7, 3, 2, 8, 5, 6, 9, 4, 0, 1>>
    [] seed = 0 /\ n = 20 ->
       <<10, 18, 16, 14, 0, 17, 11, 2, 3, 9, 5, 7, 4, 19, 6, 15, 8, 1, 13,
         12>>
    [] seed = 7 /\ n = 20 ->
       <<17, 15, 11, 18, 7, 6, 19, 3, 14, 0, 9, 5, 16, 8, 13, 2, 1, 12, 4,
         10>>
    [] seed = 42 /\ n = 20 ->
       <<19, 5, 14, 4, 9, 13, 15, 18, 6, 12, 17, 10, 1, 11, 2, 16, 7, 8, 0,
         3>>
    [] seed = 0 /\ n = 27 ->
       <<3, 14, 10, 17, 5, 0, 7, 21, 19, 18, 23, 25, 4, 2, 22, 6, 11, 20,
         9, 26, 15, 16, 8, 1, 13, 24, 12>>
    [] seed = 7 /\ n = 27 ->
       <<9, 5, 21, 8, 7, 25, 14, 18, 26, 19, 13, 24, 15, 23, 0, 6, 16, 22,
         11, 3, 17, 2, 1, 20, 12, 4, 10>>
    [] seed = 42 /\ n = 27 ->
       <<16, 12, 9, 26, 19, 6, 5, 10, 15, 22, 11, 18, 1, 14, 24, 13, 2, 17,
         25, 4, 21, 7, 8, 23, 0, 3, 20>>
    [] seed = 0 /\ n = 28 ->
       <<3, 14, 10, 17, 5, 0, 7, 21, 19, 18, 23, 25, 4, 2, 22, 6, 11, 20,
         9, 26, 15, 16, 8, 1, 13, 24, 12, 27>>
    [] seed = 7 /\ n = 28 ->
       <<9, 5, 22, 8, 7, 26, 14, 19, 27, 24, 13, 25, 15, 21, 0, 6, 16, 23,
         18, 11, 3, 17, 2, 1, 20, 12, 4, 10>>
    [] seed = 42 /\ n = 28 ->
       <<18, 16, 10, 21, 27, 6, 5, 11, 14, 9, 24, 12, 19, 15, 25, 1, 13, 2,
         17, 26, 4, 22, 7, 8, 23, 0, 3, 20>>
    [] n = 0 -> << >>

\* np.random.seed(seed); np.random.shuffle(np.arange(n)): the order NumPy's
\* legacy generator leaves the index array in, for the same seeds and lengths.
NpRandomShuffle(seed, n) ==
  CASE seed = 0 /\ n = 1 ->
       <<0>>
    [] seed = 7 /\ n = 1 ->
       <<0>>
    [] seed = 42 /\ n = 1 ->
       <<0>>
    [] seed = 0 /\ n = 2 ->
       <<1, 0>>
    [] seed = 7 /\ n = 2 ->
       <<0, 1>>
    [] seed = 42 /\ n = 2 ->
       <<1, 0>>
    [] seed = 0 /\ n = 3 ->
       <<2, 1, 0>>
    [] seed = 7 /\ n = 3 ->
       <<2, 1, 0>>
    [] seed = 42 /\ n = 3 ->
       <<0, 1, 2>>
    [] seed = 0 /\ n = 4 ->
       <<2, 3, 1, 0>>
    [] seed = 7 /\ n = 4 ->
       <<2, 1, 0, 3>>
    [] seed = 42 /\ n = 4 ->
       <<1, 3, 0, 2>>
    [] seed = 0 /\ n = 5 ->
       <<2, 0, 1, 3, 4>>
    [] seed = 7 /\ n = 5 ->
       <<0, 3, 2, 1, 4>>
    [] seed = 42 /\ n = 5 ->
       <<1, 4, 2, 0, 3>>
    [] seed = 0 /\ n = 6 ->
       <<5, 2, 1, 3, 0, 4>>
    [] seed = 7 /\ n = 6 ->
       <<3, 5, 0, 2, 1, 4>>
    [] seed = 42 /\ n = 6 ->
       <<0, 1, 5, 2, 4, 3>>
    [] seed = 0 /\ n = 7 ->
       <<6, 2, 1, 3, 0, 5, 4>>
    [] seed = 7 /\ n = 7 ->
       <<2, 5, 0, 6, 3, 1, 4>>
    [] seed = 42 /\ n = 7 ->
       <<0, 1, 5, 2, 4, 3, 6>>
    [] seed = 0 /\ n = 10 ->
       <<2, 8, 4, 9, 1, 6, 7, 3, 0, 5>>
    [] seed = 7 /\ n = 10 ->
       <<8, 5, 0, 2, 1, 9, 7, 3, 6, 4>>
    [] seed = 42 /\ n = 10 ->
       <<8, 1, 5, 0, 7, 2, 9, 4, 3, 6>>
    [] seed = 0 /\ n = 20 ->
       <<18, 1, 19, 8, 10, 17, 6, 13, 4, 2, 5, 14, 9, 7, 16, 11, 3, 0, 15,
         12>>
    [] seed = 7 /\ n = 20 ->
       <<1, 17, 2, 5, 11, 0, 18, 6, 13, 19, 10, 14, 8, 16, 9, 12, 7, 3, 4,
         15>>
    [] seed = 42 /\ n = 20 ->
       <<0, 17, 15, 1, 8, 5, 11, 3, 18, 16, 13, 2, 9, 19, 4, 12, 7, 10, 14,
         6>>
    [] seed = 0 /\ n = 27 ->
       <<2, 24, 14, 17, 5, 11, 23, 13, 19, 20, 16, 1, 10, 26, 25, 8, 6, 4,
         18, 9, 7, 22, 3, 0, 21, 15, 12>>
    [] seed = 7 /\ n = 27 ->
       <<2, 9, 1, 5, 17, 16, 13, 23, 18, 11, 12, 26, 0, 25, 6, 21, 24, 10,
         20, 8, 14, 7, 19, 3, 22, 4, 15>>
    [] seed = 42 /\ n = 27 ->
       <<8, 13, 9, 21, 0, 11, 16, 17, 12, 24, 1, 4, 5, 2, 15, 22, 3, 25,
         23, 18, 26, 20, 7, 10, 14, 19, 6>>
    [] seed = 0 /\ n = 28 ->
       <<2, 22, 14, 17, 5, 11, 24, 13, 20, 25, 16, 1, 10, 27, 26, 8, 6, 4,
         18, 19, 9, 7, 23, 3, 0, 21, 15, 12>>
    [] seed = 7 /\ n = 28 ->
       <<2, 9, 1, 5, 17, 16, 13, 23, 18, 11, 12, 27, 0, 26, 6, 21, 24, 10,
         20, 8, 14, 7, 19, 3, 22, 25, 4, 15>>
    [] seed = 42 /\ n = 28 ->
       <<9, 25, 8, 21, 0, 12, 17, 22, 11, 13, 15, 1, 4, 5, 2, 16, 23, 3,
         26, 24, 18, 27, 20, 7, 10, 14, 19, 6>>
    [] n = 0 -> << >>

\* np.random.shuffle(np.arange(n)) as the second shuffle after
\* np.random.seed(seed), the first having shuffled n1 entries
NpRandomShuffleNext(seed, n1, n) ==
  CASE seed = 7 /\ n1 = 10 /\ n = 10 ->
       <<1, 3, 2, 5, 9, 0, 4, 6, 7, 8>>
    [] seed = 7 /\ n1 = 10 /\ n = 20 ->
       <<2, 17, 1, 9, 11, 5, 18, 19, 3, 15, 12, 13, 16, 0, 4, 6, 7, 8, 10,
         14>>
    [] seed = 7 /\ n1 = 20 /\ n = 10 ->
       <<2, 4, 1, 9, 6, 8, 7, 0, 5, 3>>
    [] seed = 7 /\ n1 = 20 /\ n = 20 ->
       <<18, 7, 15, 14, 17, 3, 1, 10, 4, 6, 9, 8, 2, 0, 13, 11, 16, 5, 12,
         19>>
    [] seed = 42 /\ n1 = 10 /\ n = 10 ->
       <<0, 1, 8, 5, 3, 4, 7, 9, 6, 2>>
    [] seed = 42 /\ n1 = 10 /\ n = 20 ->
       <<8, 13, 9, 6, 0, 11, 16, 17, 12, 14, 1, 4, 5, 2, 15, 7, 3, 19, 10,
         18>>
    [] seed = 42 /\ n1 = 20 /\ n = 10 ->
       <<5, 2, 7, 6, 8, 9, 3, 0, 4, 1>>
    [] seed = 42 /\ n1 = 20 /\ n = 20 ->
       <<19, 16, 15, 5, 4, 12, 14, 7, 3, 6, 2, 9, 13, 10, 18, 8, 17, 11,
         0, 1>>

\* sorted(xs): insertion sort, ascending
RECURSIVE Insert(_, _)
Insert(x, s) ==
  IF s = << >> THEN <<x>>
  ELSE IF x <= Head(s) THEN <<x>> \o s
  ELSE <<Head(s)>> \o Insert(x, Tail(s))

RECURSIVE Sorted(_)
Sorted(s) == IF s = << >> THEN << >> ELSE Insert(Head(s), Sorted(Tail(s)))

\* xs[:k]
Prefix(s, k) == SubSeq(s, 1, Min(Max(k, 0), Len(s)))

\* [x] * k, empty for k <= 0
Repeat(x, k) == [i \in 1..k |-> x]

--------------------------------------------------------------------------
\* Metric calculators (squid_formulas.py)

\* exp(beta * (m - 1)), beta = 0.12, in thousandths, m = 1..8
ExpBeta(m) == <<1000, 1127, 1271, 1433, 1616, 1822, 2054, 2316>>[m]

\* _g_function: b * log(b + 1) in thousandths, b = 1..16
GFunction(b) ==
  <<693, 2197, 4159, 6438, 8959, 11675, 14556, 17578, 20723, 23979, 27334,
    30779, 34308, 37913, 41589, 45331>>[b]

\* b ** 0.5 in thousandths, b = 0..16
SqrtB(b) ==
  <<0, 1000, 1414, 1732, 2000, 2236, 2449, 2646, 2828, 3000, 3162, 3317,
    3464, 3606, 3742, 3873, 4000>>[b + 1]

RECURSIVE Pow(_, _)
Pow(b, e) == IF e <= 0 THEN 1 ELSE b * Pow(b, e - 1)

\* the raw score returned as it is, in ten-thousandths
NormalizeSkipped(raw) == IF raw > RawCap \div 10 THEN RawCap ELSE raw * 10

\* 1 / (1 + exp(-log1p(|raw|) * sign(raw))) clamped to [0, 1]:
\* (1 + raw) / (2 + raw) for raw >= 0 and 1 / (2 + |raw|) for raw < 0.
\* raw in thousandths, result in ten-thousandths rounded down, so that a
\* finite score stays below 1.0 as it does in the source.
Normalize(raw) ==
  LET r == Min(Abs(raw), RawCap)
      normalized == IF raw >= 0 THEN One - CeilDiv(One * 1000, 2000 + r)
                    ELSE (One * 1000) \div (2000 + r)
  IN Max(0, Min(One, normalized))

\* _calculate_simplified_formula: (t / L) * (1 + b) / (1 + m), thousandths
SimplifiedFormula(b, m, t) ==
  LET L == Pow(b, m)
  IN IF L <= 0 THEN 1000 ELSE (1000 * t * (1 + b)) \div (L * (1 + m))

\* _calculate_full_formula is (2t/L) * exp(beta(m-1)) * component3 * g(b)
\* with component3 = 83790005761.2 (its p = 4 term divides by eps = 1e-12).
\* FullScaled is (2t/L) * exp(..) * g(b) in units of 1e-4, FullScaledFine the
\* same in units of 1e-7 for the leaf counts that make it that small.
FullScaled(b, m, t) ==
  (((2 * t * ExpBeta(m)) \div 10) * (GFunction(b) \div 10)) \div Pow(b, m)

FullScaledFine(b, m, t) ==
  (((2 * t * ExpBeta(m)) \div 10) * (GFunction(b) \div 10))
    \div Max(1, Pow(b, m) \div 1000)

\* raw > 1e9: the product exceeds 1e9 exactly when (2t/L) * exp(..) * g(b)
\* exceeds 1e9 / component3 = 0.0119346
FullTooLarge(b, m, t) == FullScaled(b, m, t) > 119

\* the full formula's value in thousandths, saturated at RawCap
FullFormula(b, m, t) ==
  IF FullScaled(b, m, t) >= 1 \/ FullScaledFine(b, m, t) >= 120 THEN RawCap
  ELSE FullScaledFine(b, m, t) * 8379000

\* SuperRelationCalculator.calculate on params that hold numbers b, m, t
SRCalculate(p) ==
  IF p.b <= 0 \/ p.m <= 0 \/ p.t <= 0 THEN One
  ELSE LET raw == IF FullTooLarge(p.b, p.m, p.t)
                  THEN SimplifiedFormula(p.b, p.m, p.t)
                  ELSE FullFormula(p.b, p.m, p.t)
       IN Normalize(raw)

\* CorrelationCalculator.calculate with d = m.  numerator = t * b^0.5 * b * m,
\* denom = max(1e-12, 0.1^(2m+1)); powers of ten beyond 1e9 saturate the
\* score whatever the numerator, so they are taken as 1e9.  A negative b
\* makes b ** 0.5 complex and the sign test of the normalisation raises,
\* which the calculator answers by 0.0.
CRaw(p) ==
  LET numerator == p.t * SqrtB(p.b) * p.b * p.m
      e == 2 * p.m + 1
      scaleUp == Pow(10, Min(9, Min(12, e)))
      scaleDown == Pow(10, Min(9, 0 - e))
  IN IF numerator = 0 THEN 0
     ELSE IF e >= 0
          THEN IF Abs(numerator) >= RawCap \div scaleUp
               THEN (IF numerator > 0 THEN RawCap ELSE 0 - RawCap)
               ELSE numerator * scaleUp
          ELSE IF numerator > 0 THEN numerator \div scaleDown
               ELSE 0 - ((0 - numerator) \div scaleDown)

CCalculate(p) == IF p.b < 0 THEN 0 ELSE Normalize(CRaw(p))

\* sanitize: a finite number is returned as it is (the calculators return
\* nothing else), anything else becomes 0.0
Sanitize(value) == value

--------------------------------------------------------------------------
\* Policy engine (squid_formulas.py, PolicyCalculator; sr_min = 1.0,
\* gamma_t = 10.0)

Clamp(value, lo, hi) == Max(lo, Min(hi, value))

\* calculate_decoy_rate without the clamp of the low confidence zone
CalculateDecoyRateUnclamped(sr, c) ==
  LET Sum == 10 * sr + c
  IN IF sr >= One /\ c >= 10 * One
     THEN Clamp(2 * Min(2500000, Sum), 2000000, 5000000)
     ELSE Min(1000000, Sum)

\* calculate_decoy_rate taking the high zone when either threshold is met
CalculateDecoyRateEither(sr, c) ==
  LET Sum == 10 * sr + c
  IN IF sr >= One \/ c >= 10 * One
     THEN Clamp(2 * Min(2500000, Sum), 2000000, 5000000)
     ELSE Clamp(Min(1000000, Sum), 100000, 1000000)

\* calculate_decoy_rate, in 1e-7; sr + c / gamma_t is Sum in 1e-5
CalculateDecoyRate(sr, c) ==
  LET Sum == 10 * sr + c
  IN IF sr >= One /\ c >= 10 * One
     THEN Clamp(2 * Min(2500000, Sum), 2000000, 5000000)
     ELSE Clamp(Min(1000000, Sum), 100000, 1000000)

\* the action list with the block sizes rounded up instead of truncated
ActionBlocksCeil(num_leaves, sr, c) ==
  LET num_decoy == CeilDiv(num_leaves * CalculateDecoyRate(sr, c), 10000000)
      num_mutate == IF sr >= One THEN CeilDiv(num_leaves * 5, 100) ELSE 0
      num_reassign == IF sr < One THEN CeilDiv(num_leaves * 5, 100) ELSE 0
      num_valid == num_leaves - num_decoy - num_mutate - num_reassign
  IN Repeat("DECOY", num_decoy) \o Repeat("MUTATE", num_mutate)
       \o Repeat("REASSIGN", num_reassign) \o Repeat("VALID", num_valid)

\* the action list with a MUTATE and a REASSIGN block whatever sr is
ActionBlocksBoth(num_leaves, sr, c) ==
  LET num_decoy == (num_leaves * CalculateDecoyRate(sr, c)) \div 10000000
      num_mutate == (num_leaves * 5) \div 100
      num_reassign == (num_leaves * 5) \div 100
      num_valid == num_leaves - num_decoy - num_mutate - num_reassign
  IN Repeat("DECOY", num_decoy) \o Repeat("MUTATE", num_mutate)
       \o Repeat("REASSIGN", num_reassign) \o Repeat("VALID", num_valid)

\* the action list before the shuffle: DECOY.. MUTATE.. REASSIGN.. VALID..
ActionBlocks(num_leaves, sr, c) ==
  LET num_decoy == (num_leaves * CalculateDecoyRate(sr, c)) \div 10000000
      num_mutate == IF sr >= One THEN (num_leaves * 5) \div 100 ELSE 0
      num_reassign == IF sr < One THEN (num_leaves * 5) \div 100 ELSE 0
      num_valid == num_leaves - num_decoy - num_mutate - num_reassign
  IN Repeat("DECOY", num_decoy) \o Repeat("MUTATE", num_mutate)
       \o Repeat("REASSIGN", num_reassign) \o Repeat("VALID", num_valid)

\* generate_actions seeding np.random only when nobody has seeded it before
GenerateActionsShared(num_leaves, sr, c, seed) ==
  LET actions == ActionBlocks(num_leaves, sr, c)
      indices == NpRandomShuffle(IF rng.seed # NoSeed THEN rng.seed ELSE seed,
                                 num_leaves)
  IN IF seed # NoSeed
     THEN [new_pos \in 1..num_leaves |-> actions[indices[new_pos] + 1]]
     ELSE actions

\* generate_actions: with a seed, position new_pos gets the action at
\* indices[new_pos] of the shuffled index array; without one the blocks are
\* returned in their fixed order
GenerateActions(num_leaves, sr, c, seed) ==
  LET actions == ActionBlocks(num_leaves, sr, c)
      indices == NpRandomShuffle(seed, num_leaves)
  IN IF seed # NoSeed
     THEN [new_pos \in 1..num_leaves |-> actions[indices[new_pos] + 1]]
     ELSE actions

--------------------------------------------------------------------------
\* Rotation planner (decision_engine.py)

\* risk = (1 - sr) * 0.6 + c * 0.4, in 1e-5
Risk(sr_norm, c_norm) == 6 * (One - sr_norm) + 4 * c_norm

\* pct without the min(1, max(0, .)) around the risk
RotationPctUnclamped(risk) == 300000 + 17 * risk

\* pct = 0.03 + 0.17 * min(1, max(0, risk)), in 1e-7
RotationPct(risk) == 300000 + 17 * Min(100000, Max(0, risk))

\* the generator seed if a call without a seed drew from the process-wide
\* generator as the last seeded call left it
PlannerSeedShared(seed) ==
  IF seed # NoSeed THEN seed
  ELSE IF rng.seed # NoSeed THEN rng.seed ELSE PlannerDefaultSeed

\* the generator seed of plan_rotations
PlannerSeed(seed) == IF seed # NoSeed THEN seed ELSE PlannerDefaultSeed

\* plan_rotations without the floor of one rotation
PlanRotationsNoFloor(num_leaves, sr_norm, c_norm, seed) ==
  LET risk == Risk(sr_norm, c_norm)
      pct == RotationPct(risk)
      count == CeilDiv(num_leaves * pct, 10000000)
      indices == RandomShuffle(PlannerSeed(seed), num_leaves)
  IN [rotation_percentage |-> pct,
      rotation_count |-> count,
      indices |-> Sorted(Prefix(indices, count)),
      risk |-> risk]

PlanRotations(num_leaves, sr_norm, c_norm, seed) ==
  LET risk == Risk(sr_norm, c_norm)
      pct == RotationPct(risk)
      count == Max(1, CeilDiv(num_leaves * pct, 10000000))
      indices == RandomShuffle(PlannerSeed(seed), num_leaves)
  IN [rotation_percentage |-> pct,
      rotation_count |-> count,
      indices |-> Sorted(Prefix(indices, count)),
      risk |-> risk]

--------------------------------------------------------------------------
\* The daemon (ipc_daemon.py)

\* _compute_ai_explanation choosing MUTATE_TREE by sr instead of the risk
ComputeAiExplanationBySr(sr, c, rotation_plan) ==
  LET risk == rotation_plan.risk
      rotation_count == rotation_plan.rotation_count
      drivers == (IF sr < 4000 THEN <<"fingerprint_drift">> ELSE << >>)
                   \o (IF c > 7000 THEN <<"entropy_spike">> ELSE << >>)
                   \o (IF risk > 60000 THEN <<"low_temporal_coherence">>
                       ELSE << >>)
      decision == IF rotation_count > 0 /\ sr < 4000 THEN "MUTATE_TREE"
                  ELSE IF rotation_count > 0 THEN "INSERT_DECOY"
                  ELSE "HOLD_STATE"
      confidence == IF rotation_count > 0 /\ sr < 4000
                    THEN Min(1000000, 700000 + 3 * risk)
                    ELSE IF rotation_count > 0 THEN 600000 + 2 * risk
                    ELSE 600000
  IN [decision |-> decision,
      confidence |-> Max(0, Min(1000000, confidence)),
      drivers |-> IF drivers = << >> THEN <<"stable_conditions">>
                  ELSE drivers]

\* _compute_ai_explanation; confidence in 1e-6
ComputeAiExplanation(sr, c, rotation_plan) ==
  LET risk == rotation_plan.risk
      rotation_count == rotation_plan.rotation_count
      drivers == (IF sr < 4000 THEN <<"fingerprint_drift">> ELSE << >>)
                   \o (IF c > 7000 THEN <<"entropy_spike">> ELSE << >>)
                   \o (IF risk > 60000 THEN <<"low_temporal_coherence">>
                       ELSE << >>)
      decision == IF rotation_count > 0 /\ risk >= 40000 THEN "MUTATE_TREE"
                  ELSE IF rotation_count > 0 THEN "INSERT_DECOY"
                  ELSE "HOLD_STATE"
      confidence == IF rotation_count > 0 /\ risk >= 40000
                    THEN Min(1000000, 700000 + 3 * risk)
                    ELSE IF rotation_count > 0 THEN 600000 + 2 * risk
                    ELSE 600000
  IN [decision |-> decision,
      confidence |-> Max(0, Min(1000000, confidence)),
      drivers |-> IF drivers = << >> THEN <<"stable_conditions">>
                  ELSE drivers]

\* the result of a response that carries no decision record
NoDecision ==
  [sr |-> 0, c |-> 0, actions |-> << >>,
   rotation_plan |-> [rotation_percentage |-> 0, rotation_count |-> 0,
                      indices |-> << >>, risk |-> 0],
   decision |-> "", confidence |-> 0, drivers |-> << >>,
   entropy_budget_remaining |-> 0]

\* sr and c of handle_decide: the calculators raise on params without the
\* numbers b, m, t, and the handler then takes both metrics as 0.0
Metrics(params) ==
  IF params.complete
  THEN [sr |-> Sanitize(SRCalculate(params)), c |-> Sanitize(CCalculate(params))]
  ELSE [sr |-> Sanitize(0), c |-> Sanitize(0)]

\* locked = ENTROPY_BUDGET <= 0.0
Locked(b) == b <= 0

\* seed_val that draws from ambient state while the budget lasts
SeedValAmbient(locked, seed) ==
  IF locked THEN FallbackSeed
  ELSE IF budget % 4 < 2 THEN NoSeed ELSE 7

\* seed_val that lets a caller's seed through in the locked state
SeedValCaller(locked, seed) ==
  IF locked THEN (IF seed # NoSeed THEN seed ELSE FallbackSeed) ELSE NoSeed

\* seed_val: 42 when locked, None otherwise; the caller's seed is read from
\* the payload and not used
SeedVal(locked, seed) == IF locked THEN FallbackSeed ELSE NoSeed

\* a deduction that counts the indices returned, not rotation_count
DeductionByIndices(rotation_plan) ==
  DecisionCost + RotationCost * Len(rotation_plan.indices)

\* a deduction of the flat 0.5 only
DeductionFlat(rotation_plan) == DecisionCost

\* 0.5 + 0.01 * float(rotation_plan.get('rotation_count', 0))
Deduction(rotation_plan) ==
  DecisionCost + RotationCost * rotation_plan.rotation_count

\* a budget that is refilled once it is exhausted
BudgetAfterRefill(b, locked, rotation_plan) ==
  IF ~locked THEN b - (DecisionCost + RotationCost * rotation_plan.rotation_count)
  ELSE InitialBudget

\* a deduction made in the locked state too
BudgetAfterAlways(b, locked, rotation_plan) ==
  b - (DecisionCost + RotationCost * rotation_plan.rotation_count)

\* if not locked: ENTROPY_BUDGET -= ...
BudgetAfter(b, locked, rotation_plan) ==
  IF ~locked THEN b - Deduction(rotation_plan) ELSE b

\* the record handle_decide returns, given the budget after its deduction
DecisionRecord(m, actions, rotation_plan, b) ==
  LET explanation == ComputeAiExplanation(m.sr, m.c, rotation_plan)
  IN [sr |-> m.sr, c |-> m.c, actions |-> actions,
      rotation_plan |-> rotation_plan,
      decision |-> explanation.decision,
      confidence |-> explanation.confidence,
      drivers |-> explanation.drivers,
      entropy_budget_remaining |-> Max(0, b)]

\* an exception raised after the budget has been charged
RaiseAfterCharge(b) ==
  [raised |-> TRUE, budget |-> b - DecisionCost, result |-> NoDecision]

\* an exception that leaves handle_decide: the global is as it was
Raise(b) == [raised |-> TRUE, budget |-> b, result |-> NoDecision]

\* handle_decide on budget b.  payload.get raises on a payload that is no
\* dict, len(features) raises on a features value without a length; both
\* happen before the deduction.
HandleDecide(b, payload) ==
  IF ~payload.dict THEN Raise(b)
  ELSE LET m == Metrics(payload.params)
           locked == Locked(b)
           seed_val == SeedVal(locked, payload.seed)
       IN IF payload.nfeat = Unsized THEN Raise(b)
          ELSE LET actions == GenerateActions(payload.nfeat, m.sr, m.c, seed_val)
                   rotation_plan ==
                     PlanRotations(payload.nfeat, m.sr, m.c, seed_val)
                   after == BudgetAfter(b, locked, rotation_plan)
               IN [raised |-> FALSE, budget |-> after,
                   result |-> DecisionRecord(m, actions, rotation_plan, after)]

Response(ok, kind, error, result) ==
  [ok |-> ok, kind |-> kind, error |-> error, result |-> result]

\* process_message on budget b: the response and the budget left
ProcessMessage(b, m) ==
  IF m.cmd = "decide"
  THEN LET out == HandleDecide(b, m.payload)
       IN IF out.raised
          THEN [resp |-> Response(FALSE, "error", "exception", NoDecision),
                budget |-> out.budget]
          ELSE [resp |-> Response(TRUE, "decision", "", out.result),
                budget |-> out.budget]
  ELSE IF m.cmd = "health"
  THEN [resp |-> Response(TRUE, "health", "", NoDecision), budget |-> b]
  ELSE IF m.cmd = "train"
  THEN [resp |-> Response(TRUE, "train", "", NoDecision), budget |-> b]
  ELSE [resp |-> Response(FALSE, "error", "unknown_cmd", NoDecision),
        budget |-> b]

\* one pass of the run_daemon loop over a non-blank line
HandleLineOutcome(b, line) ==
  IF ~line.json
  THEN [resp |-> Response(FALSE, "error", "invalid_json", NoDecision),
        budget |-> b]
  ELSE ProcessMessage(b, line)

--------------------------------------------------------------------------
\* Inputs

ValidParams == [complete |-> TRUE, b |-> 3, m |-> 3, t |-> 64]
\* b below the accepted range 2..16
OutOfRangeParams == [complete |-> TRUE, b |-> 0 - 1, m |-> 3, t |-> 64]
\* no key 'b'
MissingParams == [complete |-> FALSE, b |-> 0, m |-> 3, t |-> 64]

ParamsValues == {ValidParams, OutOfRangeParams, MissingParams}
CallerSeeds == {7}
SeedValues == {NoSeed} \cup CallerSeeds
FeatureCounts == {0, NumLeaves}

EmptyPayload ==
  [dict |-> TRUE, params |-> MissingParams, nfeat |-> 0, seed |-> NoSeed]

\* payloads handle_decide answers with a decision record
GoodPayloads ==
  [dict : {TRUE}, params : ParamsValues, nfeat : FeatureCounts,
   seed : SeedValues]

\* payloads handle_decide raises on
BadPayloads ==
  {[dict |-> FALSE, params |-> MissingParams, nfeat |-> 0, seed |-> NoSeed],
   [dict |-> TRUE, params |-> ValidParams, nfeat |-> Unsized, seed |-> NoSeed]}

Payloads == GoodPayloads \cup BadPayloads

Line(json, cmd, payload) == [json |-> json, cmd |-> cmd, payload |-> payload]

\* no line handled yet
NoLine == Line(FALSE, "none", EmptyPayload)
NoResponse == Response(FALSE, "none", "", NoDecision)
NoMemo == [taken |-> FALSE, locked |-> FALSE, payload |-> EmptyPayload,
           result |-> [sr |-> 0, c |-> 0, actions |-> << >>,
                       rotation_plan |-> NoDecision.rotation_plan]]
NoFrame == [line |-> NoLine, m |-> [sr |-> 0, c |-> 0], locked |-> FALSE,
            actions |-> << >>, rotation_plan |-> NoDecision.rotation_plan,
            loaded |-> 0]

\* a second thread serving requests beside the main loop
TwoThreads == {"main", "worker"}

\* the threads that run handle_decide: run_daemon is one loop on the main
\* thread, which reads the next line after it has written the last response
Threads == {"main"}

\* no library call made, nothing returned
NoCall == [fn |-> "none"]
NoReturn == [raised |-> FALSE, kind |-> "none", value |-> << >>]

\* np.random as the import of numpy leaves it: seeded from the system, so
\* that what it draws next is not determined by the program
Unseeded == [seed |-> NoSeed, drawn |-> << >>]

--------------------------------------------------------------------------
\* The daemon as a loop that handles one line per step

Init ==
  /\ budget = InitialBudget
  /\ prev = InitialBudget
  /\ msg = NoLine
  /\ resp = NoResponse
  /\ memo = NoMemo
  /\ pc = [t \in Threads |-> "idle"]
  /\ frame = [t \in Threads |-> NoFrame]
  /\ deducted = 0
  /\ call = NoCall
  /\ ret = NoReturn
  /\ rng = Unseeded
  /\ stdin = << >>
  /\ stdout = << >>
  /\ decisions = 0

\* reading a line, handling it and writing the response, as one step
HandleCore(line) ==
  LET out == HandleLineOutcome(budget, line)
  IN /\ prev' = budget
     /\ budget' = out.budget
     /\ msg' = line
     /\ resp' = out.resp

Handle(line) == HandleCore(line) /\ UNCHANGED <<memo, pc, frame, deducted,
               call, ret, rng, stdin, stdout,
               decisions>>

\* each action builds the line it handles in the step that handles it
InvalidJson == /\ Handle(Line(FALSE, "", EmptyPayload))
Health == /\ Handle(Line(TRUE, "health", EmptyPayload))
Train == /\ Handle(Line(TRUE, "train", EmptyPayload))
UnknownCmd == /\ Handle(Line(TRUE, "other", EmptyPayload))
Decide == \E payload \in Payloads : /\ Handle(Line(TRUE, "decide", payload))

Next == InvalidJson \/ Health \/ Train \/ UnknownCmd \/ Decide

Spec == Init /\ [][Next]_vars

--------------------------------------------------------------------------
\* Properties of the entropy budget

\* the last line was a decide request
LastDecide == msg.json /\ msg.cmd = "decide"
\* ... answered by a decision record
Decided == LastDecide /\ resp.ok /\ resp.kind = "decision"
\* ... handled in the LOCKED state / in the ACTIVE state
DecidedLocked == Decided /\ prev <= 0
DecidedActive == Decided /\ prev > 0

\* C1: the budget starts at 100.0, no step of the daemon increases it, and
\* once it is <= 0 no later step makes it positive again.
BudgetMonotone ==
  /\ budget = InitialBudget
  /\ [][budget' <= budget /\ (budget <= 0 => budget' <= 0)]_vars

\* the budget is exhausted and a decide request has been served after that
ServedAfterExhaustion == DecidedLocked /\ budget <= 0

\* C2: in the LOCKED state the decision does not depend on the caller's seed:
\* the same request with any other seed gets the same actions and the same
\* rotation plan, both drawn with the fallback seed 42.
LockedIgnoresCallerSeed ==
  DecidedLocked =>
    LET n == msg.payload.nfeat
        r == resp.result
    IN /\ \A s \in SeedValues :
            LET other == HandleDecide(prev, [msg.payload EXCEPT !.seed = s])
            IN /\ other.result.actions = r.actions
               /\ other.result.rotation_plan = r.rotation_plan
       /\ r.rotation_plan.indices =
            Sorted(Prefix(RandomShuffle(FallbackSeed, n),
                          r.rotation_plan.rotation_count))
       /\ r.actions =
            [i \in 1..n |->
               ActionBlocks(n, r.sr, r.c)[NpRandomShuffle(FallbackSeed, n)[i] + 1]]

\* a request with a caller seed and a full feature list served while LOCKED
LockedSeededServed ==
  DecidedLocked /\ msg.payload.seed \in CallerSeeds
    /\ msg.payload.nfeat = NumLeaves

\* C3: a decide request answered by an error leaves the budget as it was.
FailedDecideKeepsBudget == (LastDecide /\ ~resp.ok) => budget = prev

\* a decide request has failed in a process that has already spent budget
FailedAfterSpending ==
  LastDecide /\ ~resp.ok /\ 0 < prev /\ prev < InitialBudget

\* the params or the feature count of a payload are invalid: a field is
\* missing, b < 2, m < 1 or t < 1, or the features are not b^m many
InvalidRequest(payload) ==
  \/ ~payload.params.complete
  \/ payload.params.b < 2 \/ payload.params.m < 1 \/ payload.params.t < 1
  \/ payload.nfeat # Pow(payload.params.b, payload.params.m)

\* C4: a decide request with a missing or out-of-range params field, or with
\* a feature count other than b^m, is answered by an error and changes nothing.
InvalidRequestRejected ==
  (LastDecide /\ msg.payload.dict /\ msg.payload.nfeat # Unsized
     /\ InvalidRequest(msg.payload))
    => (~resp.ok /\ budget = prev)

\* C7: the stored budget is never negative.
BudgetNeverNegative == budget >= 0

\* C8: a decide request handled in the LOCKED state leaves the budget unchanged.
LockedDecideKeepsBudget == (LastDecide /\ prev <= 0) => budget = prev

\* a plan with several rotations has been returned in the LOCKED state
LockedPlanServed ==
  DecidedLocked /\ resp.result.rotation_plan.rotation_count > 1

\* C9: in the ACTIVE state a request that supplies a seed has its rotation
\* indices and its action permutation drawn from that seed.
ActiveUsesCallerSeed ==
  (DecidedActive /\ msg.payload.seed # NoSeed) =>
    LET n == msg.payload.nfeat
        seed == msg.payload.seed
        r == resp.result
    IN /\ r.rotation_plan.indices =
            Sorted(Prefix(RandomShuffle(seed, n),
                          r.rotation_plan.rotation_count))
       /\ r.actions =
            [i \in 1..n |->
               ActionBlocks(n, r.sr, r.c)[NpRandomShuffle(seed, n)[i] + 1]]

\* C10: a decision made in the ACTIVE state lowers the budget by exactly
\* 0.5 + 0.01 * rotation_count of the plan it returns, and every decision
\* record reports the budget left after it, 0 when that is not positive, a
\* value in [0, 100].
ExactDeduction ==
  Decided =>
    LET r == resp.result
    IN /\ prev > 0 =>
            budget = prev - (DecisionCost
                               + RotationCost * r.rotation_plan.rotation_count)
       /\ r.entropy_budget_remaining = (IF budget > 0 THEN budget ELSE 0)
       /\ 0 <= r.entropy_budget_remaining
       /\ r.entropy_budget_remaining <= InitialBudget

\* the decision that exhausts the budget: made ACTIVE, it reports 0
ExhaustingDecision ==
  DecidedActive /\ budget <= 0 /\ resp.result.entropy_budget_remaining = 0
    /\ resp.result.rotation_plan.rotation_count > 1

--------------------------------------------------------------------------
\* The daemon with handle_decide taken statement by statement.  The in-place
\* subtraction of the global is a read of the global followed by a write.

StepPayloads ==
  {p \in GoodPayloads : p.seed = NoSeed /\ p.params # OutOfRangeParams}
    \cup BadPayloads

\* the response line of thread t is written and t is back at readline
Finish(t, response) ==
  /\ resp' = response
  /\ pc' = [pc EXCEPT ![t] = "idle"]
  /\ frame' = [frame EXCEPT ![t] = NoFrame]

\* run_daemon: readline, json.loads and the dispatch of process_message
StepRead(t) ==
  /\ pc[t] = "idle"
  /\ \E payload \in StepPayloads :
       LET line == Line(TRUE, "decide", payload)
       IN /\ msg' = line
          /\ frame' = [frame EXCEPT ![t] = [NoFrame EXCEPT !.line = line]]
  /\ resp' = NoResponse
  /\ pc' = [pc EXCEPT ![t] = "enter"]
  /\ UNCHANGED <<budget, prev, memo, deducted,
               call, ret, rng, stdin, stdout,
               decisions>>

\* handle_decide up to the LOCKED test
StepEnter(t) ==
  /\ pc[t] = "enter"
  /\ IF ~frame[t].line.payload.dict
     THEN Finish(t, Response(FALSE, "error", "exception", NoDecision))
     ELSE /\ frame' = [frame EXCEPT
                         ![t].m = Metrics(frame[t].line.payload.params),
                         ![t].locked = Locked(budget)]
          /\ pc' = [pc EXCEPT ![t] = "plan"]
          /\ UNCHANGED resp
  /\ UNCHANGED <<budget, prev, msg, memo, deducted,
               call, ret, rng, stdin, stdout,
               decisions>>

\* generate_actions and plan_rotations
StepPlan(t) ==
  /\ pc[t] = "plan"
  /\ LET f == frame[t]
         n == f.line.payload.nfeat
         seed_val == SeedVal(f.locked, f.line.payload.seed)
     IN IF n = Unsized
        THEN Finish(t, Response(FALSE, "error", "exception", NoDecision))
        ELSE /\ frame' = [frame EXCEPT
                            ![t].actions =
                              GenerateActions(n, f.m.sr, f.m.c, seed_val),
                            ![t].rotation_plan =
                              PlanRotations(n, f.m.sr, f.m.c, seed_val)]
             /\ pc' = [pc EXCEPT ![t] = IF f.locked THEN "respond" ELSE "load"]
             /\ UNCHANGED resp
  /\ UNCHANGED <<budget, prev, msg, memo, deducted,
               call, ret, rng, stdin, stdout,
               decisions>>

\* ENTROPY_BUDGET -= ..., the read of the global
StepLoad(t) ==
  /\ pc[t] = "load"
  /\ frame' = [frame EXCEPT ![t].loaded = budget]
  /\ pc' = [pc EXCEPT ![t] = "store"]
  /\ UNCHANGED <<budget, prev, msg, resp, memo, deducted,
               call, ret, rng, stdin, stdout,
               decisions>>

\* ENTROPY_BUDGET -= ..., the write of the global
StepStore(t) ==
  /\ pc[t] = "store"
  /\ budget' = frame[t].loaded - Deduction(frame[t].rotation_plan)
  /\ deducted' = deducted + Deduction(frame[t].rotation_plan)
  /\ pc' = [pc EXCEPT ![t] = "respond"]
  /\ UNCHANGED <<prev, msg, resp, memo, frame,
               call, ret, rng, stdin, stdout,
               decisions>>

\* the record is built and the response line written
StepRespond(t) ==
  /\ pc[t] = "respond"
  /\ Finish(t, Response(TRUE, "decision", "",
                 DecisionRecord(frame[t].m, frame[t].actions,
                                frame[t].rotation_plan, budget)))
  /\ UNCHANGED <<budget, prev, msg, memo, deducted,
               call, ret, rng, stdin, stdout,
               decisions>>

NextSteps ==
  \E t \in Threads :
    \/ StepRead(t)
    \/ StepEnter(t)
    \/ StepPlan(t)
    \/ StepLoad(t)
    \/ StepStore(t)
    \/ StepRespond(t)

SpecSteps == Init /\ [][NextSteps]_vars

\* C5: the LOCKED test of a request and its deduction act on the same budget
\* value, and no deduction is lost or made twice: the budget is 100 minus the
\* sum of the deductions made.
SerialDeduction ==
  /\ budget = InitialBudget - deducted
  /\ \A t \in Threads :
       pc[t] \in {"load", "store"} =>
         /\ ~frame[t].locked
         /\ budget > 0
         /\ pc[t] = "store" => frame[t].loaded = budget

\* several ACTIVE decisions with different deductions have been answered
SeveralDeductions ==
  /\ resp.kind = "decision"
  /\ resp.result.rotation_plan.rotation_count = 1
  /\ deducted > 3 * DecisionCost
  /\ deducted % (DecisionCost + RotationCost) # 0

--------------------------------------------------------------------------
\* The daemon serving a client that repeats requests; one earlier exchange
\* is remembered.

\* what C6 compares of two decision records
Compared(r) ==
  [sr |-> r.sr, c |-> r.c, actions |-> r.actions,
   rotation_plan |-> r.rotation_plan]

PairPayloads ==
  {p \in GoodPayloads : p.nfeat = NumLeaves /\ p.params # OutOfRangeParams}

PairDecide ==
  \E payload \in PairPayloads : /\ Handle(Line(TRUE, "decide", payload))

PairRemember ==
  /\ ~memo.taken
  /\ \E payload \in PairPayloads :
       /\ HandleCore(Line(TRUE, "decide", payload))
       /\ memo' = [taken |-> TRUE, locked |-> Locked(budget),
                   payload |-> payload,
                   result |-> Compared(HandleDecide(budget, payload).result)]
  /\ UNCHANGED <<pc, frame, deducted,
               call, ret, rng, stdin, stdout,
               decisions>>

NextPair == PairDecide \/ PairRemember \/ Health

SpecPair == Init /\ [][NextPair]_vars

\* the last request repeats the remembered one
Repeated == memo.taken /\ Decided /\ msg.payload = memo.payload

\* C6 as stated: two decide requests with equal params, features and seed get
\* equal sr, c, actions and rotation plan, whatever was handled in between.
SameRequestSameAnswer ==
  Repeated => Compared(resp.result) = memo.result

\* C6, amended: ... when both are handled in the same budget state (both
\* ACTIVE or both LOCKED).
SameRequestSameAnswerInState ==
  (Repeated /\ memo.locked = Locked(prev))
    => Compared(resp.result) = memo.result

\* a request with a full feature list repeated in the ACTIVE state, in a
\* process that has answered several decisions
RepeatedWhileActive ==
  /\ Repeated /\ ~memo.locked /\ prev > 0
  /\ prev < InitialBudget - 3 * DecisionCost
  /\ Len(resp.result.actions) = NumLeaves

--------------------------------------------------------------------------
\* The library functions called on their own: one call per behaviour, its
\* arguments drawn by the initial state

\* the longest of the short leaf lists
MaxLeaves == 6

\* num_leaves: every short list, and lists long enough for each action block
LeafCounts == (0..MaxLeaves) \cup {10, 20, NumLeaves}

\* sr and c as arguments: -0.5 .. 25.0, inside and outside [0, 1]
SrInputs == {0 - 5000, 0, 3000, One, 25000, 25 * One}
CInputs == {0 - 2000, 0, 8000, One, 10 * One, 15 * One}

\* seed: None, or an integer np.random.seed and random.Random accept
SeedInputs == {NoSeed, 0, 7, FallbackSeed}

\* the calls of generate_actions and of plan_rotations
ScoreCalls ==
  [fn : {"generate_actions", "plan_rotations"},
   args : [n : LeafCounts, sr : SrInputs, c : CInputs, seed : SeedInputs]]

Returned(kind, value) == [raised |-> FALSE, kind |-> kind, value |-> value]
Raised(kind) == [raised |-> TRUE, kind |-> kind, value |-> << >>]

\* np.random after np.random.seed(seed) and the draws named in drawn
Seeded(seed, drawn) == [seed |-> seed, drawn |-> drawn]
\* np.random.shuffle of an array of n entries, as a draw
Shuffle(n) == [op |-> "shuffle", size |-> n]
\* np.random.random((rows, columns)), as a draw
RandomSample(n) == [op |-> "random", size |-> n]

\* what one call leaves unchanged: the daemon's state
DaemonUnchanged ==
  UNCHANGED <<budget, prev, msg, resp, memo, pc, frame, deducted, stdin,
              stdout, decisions>>

\* PolicyCalculator().generate_actions(n, sr, c, seed)
GenerateActionsCall ==
  /\ call.fn = "generate_actions" /\ ret.kind = "none"
  /\ ret' = Returned("actions", GenerateActions(call.args.n, call.args.sr,
                                                 call.args.c, call.args.seed))
  /\ rng' = IF call.args.seed # NoSeed
            THEN Seeded(call.args.seed, <<Shuffle(call.args.n)>>)
            ELSE rng
  /\ UNCHANGED call
  /\ DaemonUnchanged

\* plan_rotations(n, sr, c, seed)
PlanRotationsCall ==
  /\ call.fn = "plan_rotations" /\ ret.kind = "none"
  /\ ret' = Returned("plan", PlanRotations(call.args.n, call.args.sr,
                                            call.args.c, call.args.seed))
  /\ UNCHANGED <<call, rng>>
  /\ DaemonUnchanged

ActionNames == {"VALID", "DECOY", "MUTATE", "REASSIGN"}

RotationCountWithinLeaves ==
  Decided => /\ resp.result.rotation_plan.rotation_count >= 1
             /\ resp.result.rotation_plan.rotation_count
                  <= msg.payload.nfeat

\* C13: for every sr and c, also outside [0, 1], rotation_percentage is
\* 0.03 + 0.17 * clamp(0.6 * (1 - sr) + 0.4 * c, 0, 1), so within
\* [0.03, 0.20].
RotationPercentageClamped ==
  (call.fn = "plan_rotations" /\ ret.kind # "none")
    => LET blend == 6 * (One - call.args.sr) + 4 * call.args.c
           clamped == IF blend < 0 THEN 0
                      ELSE IF blend > 10 * One THEN 10 * One ELSE blend
       IN /\ ~ret.raised
          /\ ret.value.rotation_percentage = 300000 + 17 * clamped
          /\ ret.value.rotation_percentage >= 300000
          /\ ret.value.rotation_percentage <= 2000000

\* plans made for scores outside [0, 1]: a risk above 1 is planned at 20%
RiskAboveOnePlanned ==
  /\ call.fn = "plan_rotations" /\ ret.kind = "plan"
  /\ call.args.sr < 0 /\ call.args.c > One
  /\ ret.value.risk > 10 * One
  /\ ret.value.rotation_percentage = 2000000

--------------------------------------------------------------------------
\* The predictor and the reconciler (squid_model.py, SquidModel)

\* self.action_map
ActionMap(pred) ==
  CASE pred = 0 -> "VALID" [] pred = 1 -> "DECOY" [] pred = 2 -> "MUTATE"
    [] pred = 3 -> "REASSIGN"

\* actions.count(x)
Count(actions, x) == Cardinality({i \in 1..Len(actions) : actions[i] = x})

\* rate_deviation > 0.2, with rate_deviation =
\* abs(decoy_count / total - expected) / (expected + 0.01); expected in 1e-7
DeviationTooLarge(decoy_count, total, expected) ==
  5 * Abs(10000000 * decoy_count - expected * total)
    > (expected + 100000) * total

\* int(total_actions * expected_decoy_rate * 0.2)
NumPolicyDecoys(total, expected) == (total * expected) \div 50000000

\* policy_indices[:k] as a set of list positions: the first k places where
\* the policy list says DECOY
FirstDecoys(policy_actions, k) ==
  {i \in 1..Len(policy_actions) :
     /\ policy_actions[i] = "DECOY"
     /\ Cardinality({j \in 1..(i - 1) : policy_actions[j] = "DECOY"}) < k}

\* the blend that takes the policy's list where it says DECOY, all of it
BlendEveryDecoy(actions, policy_actions, k) ==
  [i \in 1..Len(actions) |->
     IF policy_actions[i] = "DECOY" THEN policy_actions[i] ELSE actions[i]]

\* blended_actions after the loop of lines 317-320
Blend(actions, policy_actions, k) ==
  [i \in 1..Len(actions) |->
     IF i \in FirstDecoys(policy_actions, k) THEN policy_actions[i]
     ELSE actions[i]]

\* the reconciler blending whatever the deviation is
BlendsAlways(actions, sr, c) == Len(actions) # 0

\* whether _apply_policy_constraints goes on to blend
Blends(actions, sr, c) ==
  /\ Len(actions) # 0
  /\ DeviationTooLarge(Count(actions, "DECOY"), Len(actions),
                       CalculateDecoyRate(sr, c))

\* _apply_policy_constraints
ApplyPolicyConstraints(actions, sr, c) ==
  LET total_actions == Len(actions)
      expected_decoy_rate == CalculateDecoyRate(sr, c)
      policy_actions == GenerateActions(total_actions, sr, c, FallbackSeed)
  IN IF Blends(actions, sr, c)
     THEN Blend(actions, policy_actions,
                NumPolicyDecoys(total_actions, expected_decoy_rate))
     ELSE actions

\* _fallback_policy
FallbackPolicy(n, sr, c) == GenerateActions(n, sr, c, FallbackSeed)

\* _predict_mlp: the classes the network gives, unless it raises
PredictMlp(fails, predicted) ==
  IF fails = "predict" THEN Raised("model") ELSE Returned("classes", predicted)

\* _predict_tree: the dummy fit of an untrained model may raise; a predict
\* that raises is caught inside and answered with class 0 for every row
PredictTree(fails, trained, predicted, batch_size) ==
  IF ~trained /\ fails = "fit" THEN Raised("model")
  ELSE IF fails = "predict" THEN Returned("classes", Repeat(0, batch_size))
  ELSE Returned("classes", predicted)

\* predict_actions(features, sr, c) of a model of the given type; n is
\* len(features), predicted what the model would answer, fails the step that
\* raises, if any
PredictActions(a) ==
  LET predictions ==
        IF a.model_type = "mlp" THEN PredictMlp(a.fails, a.predicted)
        ELSE PredictTree(a.fails, a.trained, a.predicted, a.n)
      actions == [i \in 1..Len(predictions.value) |->
                    ActionMap(predictions.value[i])]
  IN IF a.n = 0 THEN << >>
     ELSE IF a.fails = "features" \/ predictions.raised
     THEN FallbackPolicy(a.n, a.sr, a.c)
     ELSE ApplyPolicyConstraints(actions, a.sr, a.c)

\* what a model may answer for n rows: one class throughout, the classes in
\* rotation, or DECOY for nine rows in ten
PredictedOutputs(n) ==
  {[i \in 1..n |-> cls] : cls \in 0..3}
    \cup {[i \in 1..n |-> (i + d) % 4] : d \in 0..3}
    \cup {[i \in 1..n |-> IF i % 10 = 0 THEN 0 ELSE 1]}

\* (sr, c) in the low zone, and in the high zone at its lowest and highest
\* decoy rate
ScorePairs ==
  {[sr |-> 3000, c |-> 8000], [sr |-> One, c |-> 10 * One],
   [sr |-> 25 * One, c |-> 10 * One]}

\* fails names the step of predict_actions that raises: the conversion of
\* the features, the dummy fit, the model's prediction, or none
PredictActionsCalls ==
  UNION {
    {[fn |-> "predict_actions",
      args |-> [model_type |-> model_type, fails |-> fails,
                trained |-> trained, n |-> n, predicted |-> predicted,
                sr |-> p.sr, c |-> p.c]] :
       model_type \in {"mlp", "xgboost", "gbdt"},
       fails \in {f \in {"none", "features", "fit", "predict"} :
                    n = 0 => f = "none"},
       trained \in BOOLEAN, predicted \in PredictedOutputs(n),
       p \in ScorePairs} :
    n \in {0, 10, 20, NumLeaves}}

ApplyPolicyConstraintsCalls ==
  UNION {
    {[fn |-> "_apply_policy_constraints",
      args |-> [actions |-> [i \in 1..n |-> ActionMap(predicted[i])],
                sr |-> p.sr, c |-> p.c]] :
       predicted \in PredictedOutputs(n), p \in ScorePairs} :
    n \in {0, 10, 20, NumLeaves}}

\* np.random after predict_actions: the dummy fit of an untrained tree model
\* draws its training data from it, and generate_actions reseeds it
RngAfterPredict(a) ==
  LET fits == a.model_type # "mlp" /\ ~a.trained /\ a.fails # "features"
      fitted == IF fits
                THEN Seeded(rng.seed, Append(rng.drawn, RandomSample(1000)))
                ELSE rng
      falls_back == \/ a.fails = "features"
                    \/ a.model_type = "mlp" /\ a.fails = "predict"
                    \/ fits /\ a.fails = "fit"
      predicted == IF a.fails = "predict" THEN Repeat(0, a.n)
                   ELSE a.predicted
      actions == [i \in 1..a.n |-> ActionMap(predicted[i])]
  IN IF a.n = 0 THEN rng
     ELSE IF falls_back \/ Blends(actions, a.sr, a.c)
     THEN Seeded(FallbackSeed, <<Shuffle(a.n)>>)
     ELSE fitted

\* SquidModel(model_type=..).predict_actions(features, sr, c)
PredictActionsCall ==
  /\ call.fn = "predict_actions" /\ ret.kind = "none"
  /\ ret' = Returned("actions", PredictActions(call.args))
  /\ rng' = RngAfterPredict(call.args)
  /\ UNCHANGED call
  /\ DaemonUnchanged

\* SquidModel()._apply_policy_constraints(actions, sr, c)
ApplyPolicyConstraintsCall ==
  /\ call.fn = "_apply_policy_constraints" /\ ret.kind = "none"
  /\ ret' = Returned("actions",
                     ApplyPolicyConstraints(call.args.actions, call.args.sr,
                                            call.args.c))
  /\ rng' = IF Blends(call.args.actions, call.args.sr, call.args.c)
            THEN Seeded(FallbackSeed, <<Shuffle(Len(call.args.actions))>>)
            ELSE rng
  /\ UNCHANGED call
  /\ DaemonUnchanged

\* C15: whenever the underlying model (mlp, xgboost or gbdt) fails to
\* produce a prediction, predict_actions does not raise and returns exactly
\* generate_actions(n, sr, c, seed=42) for the n leaves submitted.
ModelFailureFallsBackToPolicy ==
  (/\ call.fn = "predict_actions" /\ ret.kind # "none"
   /\ call.args.n >= 1
   /\ \/ call.args.fails = "predict"
      \/ call.args.fails = "fit" /\ call.args.model_type # "mlp"
                                 /\ ~call.args.trained)
    => /\ ~ret.raised
       /\ ret.value = GenerateActions(call.args.n, call.args.sr,
                                      call.args.c, FallbackSeed)

\* C16: when the deviation exceeds 0.2, _apply_policy_constraints replaces
\* the predictor's action by the policy's (DECOY) at exactly
\* k = floor(n * expected_rate * 0.2) positions, the first k positions in
\* index order at which the seed-42 policy list says DECOY; every other
\* position keeps the predictor's action and the length stays n.
ReconcilerOverwritesFirstK ==
  (/\ call.fn = "_apply_policy_constraints" /\ ret.kind # "none"
   /\ Len(call.args.actions) >= 1
   /\ DeviationTooLarge(Count(call.args.actions, "DECOY"),
                        Len(call.args.actions),
                        CalculateDecoyRate(call.args.sr, call.args.c)))
    => LET n == Len(call.args.actions)
           k == (n * CalculateDecoyRate(call.args.sr, call.args.c))
                  \div 50000000
           policy == GenerateActions(n, call.args.sr, call.args.c,
                                     FallbackSeed)
           decoys == {i \in 1..n : policy[i] = "DECOY"}
       IN /\ ~ret.raised
          /\ Len(ret.value) = n
          /\ \E first \in SUBSET decoys :
               /\ Cardinality(first) = k
               /\ \A i \in first, j \in decoys \ first : i < j
               /\ \A i \in first : ret.value[i] = "DECOY"
               /\ \A i \in (1..n) \ first :
                    ret.value[i] = call.args.actions[i]

\* a blend that changed two or more of the predictor's actions and left it
\* its own action at a place where the policy says DECOY
ReconcilerBlended ==
  /\ call.fn = "_apply_policy_constraints" /\ ret.kind = "actions"
  /\ Cardinality({i \in 1..Len(ret.value) :
                    ret.value[i] # call.args.actions[i]}) >= 2
  /\ \E i \in 1..Len(ret.value) :
       /\ GenerateActions(Len(ret.value), call.args.sr, call.args.c,
                          FallbackSeed)[i] = "DECOY"
       /\ ret.value[i] # "DECOY"

\* branching parameters with b >= 2, m >= 1, t >= 1, and the params of the
\* decide requests
MetricParams ==
  [complete : {TRUE}, b : {2, 3, 4, 16}, m : {1, 2, 3, 6}, t : {1, 64, 512}]

CalculateCalls == [fn : {"calculate"}, args : MetricParams \cup ParamsValues]

\* SuperRelationCalculator().calculate(params) and
\* CorrelationCalculator().calculate(params), which raise KeyError on params
\* without b, m, t, and the sr and c handle_decide records for these params
CalculateCall ==
  /\ call.fn = "calculate" /\ ret.kind = "none"
  /\ ret' = Returned("scores",
                     [calculated |-> IF call.args.complete
                                     THEN <<SRCalculate(call.args),
                                            CCalculate(call.args)>>
                                     ELSE << >>,
                      record |-> Metrics(call.args)])
  /\ UNCHANGED <<call, rng>>
  /\ DaemonUnchanged

--------------------------------------------------------------------------
\* Feature validation (squid_utils.py)

\* a submitted value: its Python type and, for a number or the text of a
\* number, the number in tenths; a str holding a whole number is the text
\* int() accepts
Value(type, tenths) == [type |-> type, numeric |-> TRUE, tenths |-> tenths]
\* text that is no number, and None
NotNumeric(type) == [type |-> type, numeric |-> FALSE, tenths |-> 0]

\* required_fields: the field names, and those whose types are (int,)
FieldNames ==
  {"depth", "index", "index_hash", "local_entropy", "timestamp", "global_L",
   "global_b", "global_m", "global_t", "last_access_count",
   "leaf_hist_score"}
IntegerOnly == {"index", "global_L", "global_b", "global_m", "global_t"}

\* isinstance(value, expected_types)
Accepted(field, value) ==
  \/ value.type = "int"
  \/ value.type = "float" /\ field \notin IntegerOnly

\* int(value) of a value that is not accepted raises for text that is not a
\* whole number and for None
IntRaises(value) ==
  \/ ~value.numeric
  \/ value.type = "str" /\ value.tenths % 10 # 0

\* int(value): a float is truncated towards zero
IntOf(value) ==
  Value("int", IF value.tenths >= 0 THEN 10 * (value.tenths \div 10)
               ELSE 0 - 10 * ((0 - value.tenths) \div 10))

\* the validations of _validate_feature_ranges, in tenths
RangeOf(field) ==
  CASE field = "depth" -> <<10, 100>>
    [] field = "index" -> <<0, 1000000>>
    [] field = "local_entropy" -> <<0, 80>>
    [] field = "global_b" -> <<20, 160>>
    [] field = "global_m" -> <<10, 80>>
    [] field = "global_t" -> <<320, 5120>>
    [] field = "last_access_count" -> <<0, 10000000>>
    [] field = "leaf_hist_score" -> <<0, 10>>

\* index_hash, timestamp and global_L have no validation
InRange(field, value) ==
  field \notin {"index_hash", "timestamp", "global_L"}
    => /\ RangeOf(field)[1] <= value.tenths
       /\ value.tenths <= RangeOf(field)[2]

\* the value validated_feature gets for a field
Converted(field, value) ==
  IF Accepted(field, value) THEN value ELSE IntOf(value)

\* whether the loop body of validate_features raises ValueError on a feature
FeatureRaises(feature) ==
  \E field \in FieldNames :
    \/ field \notin DOMAIN feature
    \/ ~Accepted(field, feature[field]) /\ IntRaises(feature[field])
    \/ ~InRange(field, Converted(field, feature[field]))

\* validate_features(features)
ValidateFeatures(features) ==
  IF features = << >> THEN Raised("ValueError")
  ELSE IF \E i \in 1..Len(features) : FeatureRaises(features[i])
  THEN Raised("ValueError")
  ELSE Returned("features",
                [i \in 1..Len(features) |->
                   [field \in FieldNames |->
                      Converted(field, features[i][field])]])

\* valid_features[0] of test_utilities (the timestamp shortened)
ValidFeature ==
  [field \in FieldNames |->
     CASE field = "depth" -> Value("int", 30)
       [] field = "local_entropy" -> Value("float", 75)
       [] field = "timestamp" -> Value("int", 1640995200)
       [] field = "global_L" -> Value("int", 640)
       [] field = "global_b" -> Value("int", 40)
       [] field = "global_m" -> Value("int", 30)
       [] field = "global_t" -> Value("int", 1280)
       [] field = "leaf_hist_score" -> Value("float", 5)
       [] OTHER -> Value("int", 0)]

\* values submitted in place of a valid one: 3, 3.0, 3.7, "3", "3.7", "abc",
\* None, -1, 64.9, 100001
SubmittedValues ==
  {Value("int", 30), Value("float", 30), Value("float", 37),
   Value("str", 30), Value("str", 37), NotNumeric("str"), NotNumeric("none"),
   Value("int", 0 - 10), Value("float", 649), Value("int", 1000010)}

\* the valid feature, with one field changed, with one field left out
SubmittedFeatures ==
  {[ValidFeature EXCEPT ![field] = value] :
     field \in FieldNames, value \in SubmittedValues}
    \cup {[f \in FieldNames \ {field} |-> ValidFeature[f]] :
            field \in FieldNames}

ValidateFeaturesCalls ==
  [fn : {"validate_features"},
   args : [features : {<< >>} \cup {<<f>> : f \in SubmittedFeatures}
                        \cup {<<ValidFeature, f>> : f \in SubmittedFeatures}]]

ValidateFeaturesCall ==
  /\ call.fn = "validate_features" /\ ret.kind = "none"
  /\ ret' = ValidateFeatures(call.args.features)
  /\ UNCHANGED <<call, rng>>
  /\ DaemonUnchanged

\* a submitted feature that lacks a field, or holds a value of a type the
\* field does not accept, or a value out of the field's range
Unacceptable(feature) ==
  \E field \in FieldNames :
    \/ field \notin DOMAIN feature
    \/ ~Accepted(field, feature[field])
    \/ ~InRange(field, feature[field])

\* C19: validate_features never silently alters a submitted value: a missing
\* field, an out-of-range value or a value of a type the field does not
\* accept (a string, a non-integer for an integer-only field) is rejected
\* with ValueError, and a successful call returns one feature per input
\* carrying exactly the submitted values.
ValidationNeverAlters ==
  (call.fn = "validate_features" /\ ret.kind # "none")
    => /\ (\E i \in 1..Len(call.args.features) :
              Unacceptable(call.args.features[i]))
           => ret.raised /\ ret.kind = "ValueError"
       /\ ~ret.raised => ret.value = call.args.features

\* calculate_decoy_rate(sr, c)
CalculateDecoyRateCall ==
  /\ call.fn = "calculate_decoy_rate" /\ ret.kind = "none"
  /\ ret' = Returned("rate", CalculateDecoyRate(call.args.sr, call.args.c))
  /\ UNCHANGED <<call, rng>>
  /\ DaemonUnchanged

\* the calls of _compute_ai_explanation: sr and c at and around 0.4 and 0.7,
\* with a plan made for zero or ten leaves or with no plan at all, which
\* reads as risk 0.0 and rotation_count 0
ComputeAiExplanationCalls ==
  LET Srs == {0, 3000, 4000, One}
      Cs == {0, 7000, 8000, One}
  IN {[fn |-> "_compute_ai_explanation",
       args |-> [sr |-> sr, c |-> c, rotation_plan |-> plan]] :
        sr \in Srs, c \in Cs,
        plan \in {PlanRotations(n, psr, pcc, NoSeed) :
                    n \in {0, 10}, psr \in Srs, pcc \in Cs}
                   \cup {[rotation_percentage |-> 0, rotation_count |-> 0,
                          indices |-> << >>, risk |-> 0]}}

\* _compute_ai_explanation(sr, c, rotation_plan)
ComputeAiExplanationCall ==
  /\ call.fn = "_compute_ai_explanation" /\ ret.kind = "none"
  /\ ret' = Returned("explanation",
                     ComputeAiExplanation(call.args.sr, call.args.c,
                                          call.args.rotation_plan))
  /\ UNCHANGED <<call, rng>>
  /\ DaemonUnchanged

NextCalls ==
  \/ GenerateActionsCall \/ PlanRotationsCall
  \/ PredictActionsCall \/ ApplyPolicyConstraintsCall
  \/ CalculateCall \/ ValidateFeaturesCall
  \/ CalculateDecoyRateCall \/ ComputeAiExplanationCall

InitCalls ==
  /\ budget = InitialBudget
  /\ prev = InitialBudget
  /\ msg = NoLine
  /\ resp = NoResponse
  /\ memo = NoMemo
  /\ pc = [t \in Threads |-> "idle"]
  /\ frame = [t \in Threads |-> NoFrame]
  /\ deducted = 0
  /\ call \in UNION {ScoreCalls,
                     PredictActionsCalls, ApplyPolicyConstraintsCalls,
                     CalculateCalls, ValidateFeaturesCalls,
                     [fn : {"calculate_decoy_rate"},
                      args : [sr : SrInputs, c : CInputs]],
                     ComputeAiExplanationCalls}
  /\ ret = NoReturn
  /\ rng = Unseeded
  /\ stdin = << >>
  /\ stdout = << >>
  /\ decisions = 0

SpecCalls == InitCalls /\ [][NextCalls]_vars

--------------------------------------------------------------------------
\* Calls in sequence: a plan is made, other calls run, the plan is asked for
\* again

ReplayCalls ==
  [fn : {"plan_rotations", "generate_actions"},
   args : [n : {NumLeaves}, sr : {3000}, c : {8000},
           seed : SeedInputs \ {FallbackSeed}]]

\* no call remembered
NoneKept ==
  [taken |-> FALSE, call |-> NoCall, ret |-> NoReturn, rng |-> Unseeded,
   found |-> Unseeded]

\* the caller keeps the plan it got, and the state of np.random at that time
KeepPlan ==
  /\ ret.kind = "plan" /\ ~memo.taken
  /\ memo' = [memo EXCEPT !.taken = TRUE, !.call = call, !.ret = ret,
                           !.rng = rng]
  /\ UNCHANGED <<budget, prev, msg, resp, pc, frame, deducted,
                 call, ret, rng, stdin, stdout,
               decisions>>

\* the caller keeps the actions it got from a seeded call
KeepActions ==
  /\ ret.kind = "actions" /\ call.args.seed # NoSeed /\ ~memo.taken
  /\ memo' = [memo EXCEPT !.taken = TRUE, !.call = call, !.ret = ret,
                           !.rng = rng]
  /\ UNCHANGED <<budget, prev, msg, resp, pc, frame, deducted,
                 call, ret, rng, stdin, stdout,
               decisions>>

\* the next call is made; found is the state of np.random it starts in
NextCall ==
  /\ ret.kind # "none"
  /\ call' \in ReplayCalls
  /\ ret' = NoReturn
  /\ memo' = [memo EXCEPT !.found = rng]
  /\ UNCHANGED <<budget, prev, msg, resp, pc, frame, deducted,
                 rng, stdin, stdout,
               decisions>>

NextReplay ==
  \/ PlanRotationsCall \/ GenerateActionsCall
  \/ KeepPlan \/ KeepActions \/ NextCall

InitReplay ==
  /\ budget = InitialBudget
  /\ prev = InitialBudget
  /\ msg = NoLine
  /\ resp = NoResponse
  /\ memo = NoneKept
  /\ pc = [t \in Threads |-> "idle"]
  /\ frame = [t \in Threads |-> NoFrame]
  /\ deducted = 0
  /\ call \in ReplayCalls
  /\ ret = NoReturn
  /\ rng = Unseeded
  /\ stdin = << >>
  /\ stdout = << >>
  /\ decisions = 0

SpecReplay == InitReplay /\ [][NextReplay]_vars

\* the plan just returned answers the arguments of the remembered call, the
\* seed apart
PlanAskedAgain ==
  /\ memo.taken /\ memo.ret.kind = "plan"
  /\ call.fn = "plan_rotations" /\ ret.kind = "plan"
  /\ call.args.n = memo.call.args.n
  /\ call.args.sr = memo.call.args.sr
  /\ call.args.c = memo.call.args.c

\* C14: plan_rotations depends on its arguments only: two calls with the
\* same (n, sr, c, seed) return the same plan whatever ran in between, and
\* a call without a seed returns the plan of the call with seed 0.
PlanDependsOnArgumentsOnly ==
  PlanAskedAgain
    => /\ call.args.seed = memo.call.args.seed => ret = memo.ret
       /\ (call.args.seed = NoSeed
              /\ memo.call.args.seed = PlannerDefaultSeed)
            => ret = memo.ret
       /\ (call.args.seed = PlannerDefaultSeed
              /\ memo.call.args.seed = NoSeed)
            => ret = memo.ret

\* a plan without a seed asked for again after generate_actions has reseeded
\* np.random
PlanAskedAgainAfterReseed ==
  /\ PlanAskedAgain
  /\ call.args.seed = NoSeed /\ memo.call.args.seed = NoSeed
  /\ rng # memo.rng /\ rng.seed = 7
  /\ Len(ret.value.indices) = ret.value.rotation_count
  /\ ret.value.rotation_count > 1

--------------------------------------------------------------------------
\* generate_actions run by two request threads of one process (the Flask
\* application serves each request on a thread of its own), statement by
\* statement; np.random is the one generator of the process

Workers == {"first", "second"}

\* the arguments of the two calls: the high zone, where half of the list is
\* DECOY
WorkerArgs == [n : {10, 20}, sr : {25 * One}, c : {10 * One},
               seed : {NoSeed, 7, FallbackSeed}]

\* np.random.shuffle(np.arange(n)) drawn from the generator as it stands
ShuffleFrom(generator, n) ==
  IF generator.drawn = << >> THEN NpRandomShuffle(generator.seed, n)
  ELSE NpRandomShuffleNext(generator.seed, generator.drawn[1].size, n)

ThreadsUnchanged ==
  UNCHANGED <<budget, prev, msg, resp, memo, deducted, call, ret, stdin,
              stdout, decisions>>

\* lines 206-218: seed the generator and build the blocks
GaSeed(t) ==
  /\ pc[t] = "called"
  /\ rng' = IF frame[t].args.seed # NoSeed
            THEN Seeded(frame[t].args.seed, << >>) ELSE rng
  /\ frame' = [frame EXCEPT ![t].actions =
                 ActionBlocks(frame[t].args.n, frame[t].args.sr,
                              frame[t].args.c)]
  /\ pc' = [pc EXCEPT ![t] = "built"]
  /\ ThreadsUnchanged

\* lines 221-224: seed the generator again
GaReseed(t) ==
  /\ pc[t] = "built" /\ frame[t].args.seed # NoSeed
  /\ rng' = Seeded(frame[t].args.seed, << >>)
  /\ pc' = [pc EXCEPT ![t] = "reseeded"]
  /\ UNCHANGED frame
  /\ ThreadsUnchanged

\* line 225: shuffle the index array
GaShuffle(t) ==
  /\ pc[t] = "reseeded"
  /\ frame' = [frame EXCEPT ![t].indices = ShuffleFrom(rng, frame[t].args.n)]
  /\ rng' = Seeded(rng.seed, Append(rng.drawn, Shuffle(frame[t].args.n)))
  /\ pc' = [pc EXCEPT ![t] = "shuffled"]
  /\ ThreadsUnchanged

\* lines 227-232: place the actions and return
GaReturn(t) ==
  /\ \/ pc[t] = "shuffled"
     \/ pc[t] = "built" /\ frame[t].args.seed = NoSeed
  /\ frame' = [frame EXCEPT ![t].result =
                 IF frame[t].args.seed # NoSeed
                 THEN [new_pos \in 1..frame[t].args.n |->
                         frame[t].actions[frame[t].indices[new_pos] + 1]]
                 ELSE frame[t].actions]
  /\ pc' = [pc EXCEPT ![t] = "returned"]
  /\ UNCHANGED rng
  /\ ThreadsUnchanged

NextThreads ==
  \E t \in Workers : GaSeed(t) \/ GaReseed(t) \/ GaShuffle(t) \/ GaReturn(t)

InitThreads ==
  /\ budget = InitialBudget
  /\ prev = InitialBudget
  /\ msg = NoLine
  /\ resp = NoResponse
  /\ memo = NoMemo
  /\ pc = [t \in Workers |-> "called"]
  /\ frame \in [Workers -> [args : WorkerArgs, actions : {<< >>},
                             indices : {<< >>}, result : {<< >>}]]
  /\ deducted = 0
  /\ call = NoCall
  /\ ret = NoReturn
  /\ rng = Unseeded
  /\ stdin = << >>
  /\ stdout = << >>
  /\ decisions = 0

SpecThreads == InitThreads /\ [][NextThreads]_vars

\* C17: generate_actions calls that run concurrently do not affect each
\* other: each returns the list it returns when it runs alone, whichever
\* statements of another call run between its seeding and its shuffle.
ConcurrentCallsReturnAsAlone ==
  \A t \in Workers :
    pc[t] = "returned"
      => frame[t].result = GenerateActions(frame[t].args.n, frame[t].args.sr,
                                           frame[t].args.c, frame[t].args.seed)

--------------------------------------------------------------------------
\* run_daemon line by line, with what it has read and written

\* the number of lines the loop is followed for
MaxLines == 3

\* the JSON objects sent: the commands, a command that is none of them, a
\* decide the handler answers and one it raises on
ObjectLines ==
  {Line(TRUE, cmd, EmptyPayload) : cmd \in {"health", "train", "other"}}
    \cup {Line(TRUE, "decide", payload) :
            payload \in {[dict |-> TRUE, params |-> ValidParams,
                          nfeat |-> NumLeaves, seed |-> NoSeed],
                         [dict |-> FALSE, params |-> MissingParams,
                          nfeat |-> 0, seed |-> NoSeed]}}

\* a line as read: blank, text that is no JSON, JSON that is no object (a
\* number, a string, a list, null), or an object
Read(kind, line) == [kind |-> kind, line |-> line]

LoopUnchanged ==
  UNCHANGED <<prev, msg, resp, memo, frame, deducted, call, ret, rng,
              decisions>>

Serving == pc["main"] = "idle" /\ Len(stdin) < MaxLines

\* lines 170-172: a blank line is skipped
ReadBlank ==
  /\ Serving
  /\ stdin' = Append(stdin, Read("blank", NoLine))
  /\ UNCHANGED <<budget, pc, stdout>>
  /\ LoopUnchanged

\* lines 173-179: json.loads raises
ReadInvalidJson ==
  /\ Serving
  /\ stdin' = Append(stdin, Read("text", Line(FALSE, "", EmptyPayload)))
  /\ stdout' = Append(stdout,
                      HandleLineOutcome(budget,
                                        Line(FALSE, "", EmptyPayload)).resp)
  /\ UNCHANGED <<budget, pc>>
  /\ LoopUnchanged

\* lines 174, 181, 130: json.loads returns a value without .get, and the
\* AttributeError of msg.get('cmd'), raised before the try of
\* process_message, ends run_daemon
ReadNonObject ==
  /\ Serving
  /\ stdin' = Append(stdin, Read("value", NoLine))
  /\ pc' = [pc EXCEPT !["main"] = "crashed"]
  /\ UNCHANGED <<budget, stdout>>
  /\ LoopUnchanged

\* lines 174, 181-183: an object is processed and answered
ReadObject ==
  /\ Serving
  /\ \E line \in ObjectLines :
       /\ stdin' = Append(stdin, Read("object", line))
       /\ stdout' = Append(stdout, HandleLineOutcome(budget, line).resp)
       /\ budget' = HandleLineOutcome(budget, line).budget
  /\ UNCHANGED pc
  /\ LoopUnchanged

\* lines 167-169: end of input
ReadEof ==
  /\ pc["main"] = "idle"
  /\ pc' = [pc EXCEPT !["main"] = "exited"]
  /\ UNCHANGED <<budget, stdin, stdout,
               decisions>>
  /\ LoopUnchanged

NextLoop ==
  ReadBlank \/ ReadInvalidJson \/ ReadNonObject \/ ReadObject \/ ReadEof

SpecLoop == Init /\ [][NextLoop]_vars

\* the lines read that are not blank, in order
RECURSIVE NonBlank(_)
NonBlank(lines) ==
  IF lines = << >> THEN << >>
  ELSE IF Head(lines).kind = "blank" THEN NonBlank(Tail(lines))
  ELSE <<Head(lines)>> \o NonBlank(Tail(lines))

\* C20: the daemon loop answers every non-blank line with exactly one
\* response line, in order, with ok = false for text that is no JSON, for
\* an unknown command, for JSON of any shape that is no well-formed request
\* and for a failing request, and keeps serving until end of input; blank
\* lines get no response.
EveryLineAnswered ==
  /\ pc["main"] # "crashed"
  /\ Len(stdout) = Len(NonBlank(stdin))
  /\ \A k \in 1..Len(stdout) :
       LET read == NonBlank(stdin)[k]
       IN (\/ read.kind \in {"text", "value"}
           \/ read.line.cmd \notin {"decide", "health", "train"}
           \/ read.line.cmd = "decide" /\ ~read.line.payload.dict)
            => ~stdout[k].ok

\* ------------------------------------------------------------------------
\* Policy counts of generate_actions
\* ------------------------------------------------------------------------

\* C21: for every n >= 0, sr and c the list generate_actions returns holds
\* exactly floor(n * rate) DECOY with rate = calculate_decoy_rate(sr, c),
\* floor(n * 0.05) MUTATE when sr >= 1.0 and none otherwise, floor(n * 0.05)
\* REASSIGN when sr < 1.0 and none otherwise, and n minus those three VALID;
\* the VALID count is never negative and no list holds both MUTATE and
\* REASSIGN
ActionCountsFollowPolicy ==
  (call.fn = "generate_actions" /\ ret.kind # "none")
    => LET n == call.args.n
           twentieth == (n - (n % 20)) \div 20
           decoys == Count(ret.value, "DECOY")
           mutates == Count(ret.value, "MUTATE")
           reassigns == Count(ret.value, "REASSIGN")
           valids == Count(ret.value, "VALID")
       IN /\ decoys * 10000000 <= n * CalculateDecoyRate(call.args.sr, call.args.c)
          /\ (decoys + 1) * 10000000 > n * CalculateDecoyRate(call.args.sr, call.args.c)
          /\ mutates = (IF call.args.sr >= One THEN twentieth ELSE 0)
          /\ reassigns = (IF call.args.sr < One THEN twentieth ELSE 0)
          /\ valids = n - decoys - mutates - reassigns
          /\ valids >= 0
          /\ ~(mutates > 0 /\ reassigns > 0)

\* a seeded call for twenty leaves with sr below 1.0 that returned one
\* reassignment, no mutation and nineteen valid leaves
ReassignBlockReturned ==
  /\ call.fn = "generate_actions" /\ ret.kind = "actions"
  /\ call.args.n = 20 /\ call.args.sr < One /\ call.args.seed # NoSeed
  /\ Count(ret.value, "REASSIGN") = 1
  /\ Count(ret.value, "MUTATE") = 0
  /\ Count(ret.value, "VALID") = 19

\* C22: calculate_decoy_rate returns clamp(0.2 * min(2.5, (sr + c/10)/10),
\* 0.2, 0.5), a value in [0.2, 0.5], exactly when sr >= 1.0 and c >= 10.0,
\* and clamp(0.01 * min(10, sr + c/10), 0.01, 0.1), a value in [0.01, 0.1],
\* otherwise; for n = 10, sr = 2.5, c = 15.0 the rate is in [0.2, 0.5] and
\* the actions total 10
DecoyRateByZone ==
  /\ (call.fn = "calculate_decoy_rate" /\ ret.kind # "none")
       => LET s == call.args.sr * 10 + call.args.c
              high == IF 2 * s < 2000000 THEN 2000000
                      ELSE IF s > 2500000 THEN 5000000 ELSE 2 * s
              low == IF s < 100000 THEN 100000
                     ELSE IF s > 1000000 THEN 1000000 ELSE s
          IN /\ ~ret.raised
             /\ (call.args.sr >= One /\ call.args.c >= 10 * One)
                  => (ret.value = high
                        /\ ret.value >= 2000000 /\ ret.value <= 5000000)
             /\ ~(call.args.sr >= One /\ call.args.c >= 10 * One)
                  => (ret.value = low
                        /\ ret.value >= 100000 /\ ret.value <= 1000000)
             /\ (call.args.sr = 25000 /\ call.args.c = 15 * One)
                  => (ret.value >= 2000000 /\ ret.value <= 5000000)
  /\ (call.fn = "generate_actions" /\ ret.kind # "none" /\ call.args.n = 10
        /\ call.args.sr = 25000 /\ call.args.c = 15 * One)
       => Len(ret.value) = 10

\* calculate_decoy_rate(2.5, 15.0) returned 0.2
HighZoneRateReturned ==
  /\ call.fn = "calculate_decoy_rate" /\ ret.kind = "rate"
  /\ call.args.sr = 25000 /\ call.args.c = 15 * One
  /\ ret.value = 2000000

\* ------------------------------------------------------------------------
\* Seeded generate_actions asked again
\* ------------------------------------------------------------------------

\* the seeded actions just returned answer the arguments of the remembered
\* call
ActionsAskedAgain ==
  /\ memo.taken /\ memo.ret.kind = "actions"
  /\ call.fn = "generate_actions" /\ ret.kind = "actions"
  /\ call.args = memo.call.args

\* C23: with a seed generate_actions is deterministic: two calls with the
\* same (n, sr, c, seed) return the same sequence whatever state earlier
\* calls left the random generator in, and the sequence is a permutation of
\* the blocks DECOY.., MUTATE.., REASSIGN.., VALID.. (the shuffle changes
\* positions, never counts)
SeededActionsRepeat ==
  /\ ActionsAskedAgain => ret.value = memo.ret.value
  /\ (call.fn = "generate_actions" /\ ret.kind = "actions"
        /\ call.args.seed # NoSeed)
       => LET blocks == ActionBlocks(call.args.n, call.args.sr, call.args.c)
          IN /\ Len(ret.value) = Len(blocks)
             /\ \A x \in ActionNames :
                  Count(ret.value, x) = Count(blocks, x)

\* seeded actions asked for again after a call with another seed has left
\* np.random in its state; the shuffle has moved the REASSIGN block
ActionsAskedAgainAfterOtherSeed ==
  /\ ActionsAskedAgain
  /\ memo.found.seed # NoSeed /\ memo.found.seed # call.args.seed
  /\ Count(ret.value, "REASSIGN") = 1
  /\ ret.value # ActionBlocks(call.args.n, call.args.sr, call.args.c)

\* ------------------------------------------------------------------------
\* Indices of a rotation plan
\* ------------------------------------------------------------------------

\* C24: the indices list of every rotation plan holds exactly rotation_count
\* pairwise distinct leaf indices, each in [0, n), in strictly ascending
\* order; they are the first rotation_count entries of the seed-shuffled
\* identity permutation of [0, n)
RotationIndicesWellFormed ==
  (call.fn = "plan_rotations" /\ ret.kind # "none")
    => LET n == call.args.n
           indices == ret.value.indices
           rotation_count == ret.value.rotation_count
           shuffled == RandomShuffle(IF call.args.seed = NoSeed
                                     THEN PlannerDefaultSeed
                                     ELSE call.args.seed, n)
       IN /\ Len(indices) = rotation_count
          /\ \A i \in 1..Len(indices) : indices[i] >= 0 /\ indices[i] < n
          /\ \A i, j \in 1..Len(indices) : i < j => indices[i] < indices[j]
          /\ rotation_count <= Len(shuffled)
          /\ {indices[i] : i \in 1..Len(indices)}
               = {shuffled[i] : i \in 1..Min(rotation_count, Len(shuffled))}

\* ------------------------------------------------------------------------
\* The reconciler and the deviation from policy
\* ------------------------------------------------------------------------

\* |observed - expected| for total actions, in 1e-7 * total
Deviation(actions, expected) ==
  Abs(10000000 * Count(actions, "DECOY") - expected * Len(actions))

\* C25: when |observed - expected| / (expected + 0.01) <= 0.2, observed being
\* the predictor's share of DECOY and expected the policy's decoy rate,
\* _apply_policy_constraints returns the predictor's assignment unchanged at
\* every position
SmallDeviationKeepsPrediction ==
  (call.fn = "_apply_policy_constraints" /\ ret.kind # "none")
    => LET expected == CalculateDecoyRate(call.args.sr, call.args.c)
           total == Len(call.args.actions)
       IN 5 * Deviation(call.args.actions, expected)
             <= (expected + 100000) * total
            => /\ ~ret.raised
               /\ Len(ret.value) = total
               /\ \A i \in 1..total : ret.value[i] = call.args.actions[i]

\* a prediction for ten leaves with two DECOY among other actions, the rate
\* the policy expects, was returned
PredictionAtPolicyRateReturned ==
  /\ call.fn = "_apply_policy_constraints" /\ ret.kind = "actions"
  /\ Len(call.args.actions) = 10
  /\ Count(call.args.actions, "DECOY") = 2
  /\ Count(call.args.actions, "MUTATE") > 0
  /\ CalculateDecoyRate(call.args.sr, call.args.c) = 2000000
  /\ ret.value = call.args.actions

\* C26: reconciliation never moves the assignment further from policy: for
\* every predictor output the deviation of the reconciled assignment is no
\* larger than the deviation of the predictor's raw assignment, both when
\* the predictor produces too few and when it produces too many DECOY
ReconciledNoFurtherFromPolicy ==
  (call.fn = "_apply_policy_constraints" /\ ret.kind # "none")
    => LET expected == CalculateDecoyRate(call.args.sr, call.args.c)
       IN Deviation(ret.value, expected)
            <= Deviation(call.args.actions, expected)

\* ------------------------------------------------------------------------
\* The explanation of a decision
\* ------------------------------------------------------------------------

\* C27: the decision label and the confidence are a function of the rotation
\* plan only: MUTATE_TREE with confidence min(1, 0.7 + 0.3 * risk) when
\* rotation_count > 0 and risk >= 0.4, otherwise INSERT_DECOY with confidence
\* 0.6 + 0.2 * risk when rotation_count > 0, otherwise HOLD_STATE with 0.6;
\* the confidence is always within [0, 1]; the drivers list is never empty
\* and contains stable_conditions exactly when none of sr < 0.4, c > 0.7,
\* risk > 0.6 holds
ExplanationFollowsPlan ==
  (call.fn = "_compute_ai_explanation" /\ ret.kind # "none")
    => LET risk == call.args.rotation_plan.risk
           rotation_count == call.args.rotation_plan.rotation_count
           e == ret.value
           scaled == 700000 + 3 * risk
       IN /\ ~ret.raised
          /\ (rotation_count > 0 /\ risk >= 40000)
               => /\ e.decision = "MUTATE_TREE"
                  /\ e.confidence = (IF scaled > 1000000 THEN 1000000
                                     ELSE scaled)
          /\ (rotation_count > 0 /\ risk < 40000)
               => /\ e.decision = "INSERT_DECOY"
                  /\ e.confidence = 600000 + 2 * risk
          /\ rotation_count <= 0
               => e.decision = "HOLD_STATE" /\ e.confidence = 600000
          /\ e.confidence >= 0 /\ e.confidence <= 1000000
          /\ Len(e.drivers) >= 1
          /\ (\E i \in 1..Len(e.drivers) : e.drivers[i] = "stable_conditions")
               <=> ~(call.args.sr < 4000 \/ call.args.c > 7000
                       \/ risk > 60000)

\* HOLD_STATE was returned for a call without a plan, with stable_conditions
\* as its only driver
HoldStateExplained ==
  /\ call.fn = "_compute_ai_explanation" /\ ret.kind = "explanation"
  /\ call.args.rotation_plan.rotation_count = 0
  /\ ret.value.decision = "HOLD_STATE"
  /\ ret.value.confidence = 600000
  /\ ret.value.drivers = <<"stable_conditions">>

\* ------------------------------------------------------------------------
\* The daemon under a stream of decide requests, its decisions counted
\* ------------------------------------------------------------------------

\* a decide request that is answered with a decision record; it is counted
\* when it found the budget positive
DecideServed ==
  \E payload \in [dict : {TRUE}, params : {ValidParams},
                  nfeat : FeatureCounts, seed : {NoSeed}] :
    /\ HandleCore(Line(TRUE, "decide", payload))
    /\ decisions' = IF Locked(budget) THEN decisions ELSE decisions + 1
    /\ UNCHANGED <<memo, pc, frame, deducted, call, ret, rng, stdin, stdout>>

\* a decide request that raises
DecideFailed ==
  \E payload \in BadPayloads :
    /\ HandleCore(Line(TRUE, "decide", payload))
    /\ UNCHANGED <<memo, pc, frame, deducted, call, ret, rng, stdin, stdout,
                   decisions>>

NextCount == DecideServed \/ DecideFailed

SpecCount == Init /\ [][NextCount]_vars

\* C28: every successful ACTIVE decide deducts at least 0.51 (rotation_count
\* is at least 1, also for an empty feature list), so a process that keeps
\* receiving decide requests becomes LOCKED after at most 197 successful
\* decisions and remains LOCKED from then on
LockedWithin197Decisions ==
  /\ [][decisions' = decisions + 1 => budget' <= budget - 51]_vars
  /\ [](decisions <= 197 /\ (decisions = 197 => budget <= 0))
  /\ [][budget <= 0 => budget' <= 0]_vars

\* the 197th decision over an empty feature list has exhausted the budget
LockedByDecision197 ==
  /\ decisions = 197 /\ prev > 0 /\ budget <= 0
  /\ Decided /\ msg.payload.nfeat = 0
  /\ resp.result.rotation_plan.rotation_count = 1

\* ------------------------------------------------------------------------
\* What every decision of handle_decide has in common
\* ------------------------------------------------------------------------

\* C29: every decision record handle_decide returns has rotation_count >= 1,
\* so its label is MUTATE_TREE or INSERT_DECOY: HOLD_STATE is not reachable
\* through decide, in the ACTIVE and in the LOCKED state
HoldStateUnreachable ==
  /\ Decided
       => /\ resp.result.rotation_plan.rotation_count >= 1
          /\ resp.result.decision \in {"MUTATE_TREE", "INSERT_DECOY"}
  /\ resp.result.decision # "HOLD_STATE"

\* a LOCKED decide over an empty feature list at no risk was answered
\* INSERT_DECOY with one rotation
LockedEmptyDecideLabelled ==
  /\ DecidedLocked /\ msg.payload.nfeat = 0
  /\ resp.result.rotation_plan.risk < 40000
  /\ resp.result.rotation_plan.rotation_count = 1
  /\ resp.result.decision = "INSERT_DECOY"

\* C30: in every decision handle_decide produces, the metrics handed to the
\* policy engine satisfy sr <= 1 and c <= 1 < 10 (gamma_t), so the
\* high-confidence branch is never taken: the decoy rate used is always
\* within [0.01, 0.1] and the number of DECOY actions never exceeds
\* floor(0.1 * n)
DecisionsStayInLowZone ==
  Decided
    => LET sr == resp.result.sr
           c == resp.result.c
           rate == CalculateDecoyRate(sr, c)
       IN /\ sr <= One
          /\ c <= One /\ c < 10 * One
          /\ rate >= 100000 /\ rate <= 1000000
          /\ 10 * Count(resp.result.actions, "DECOY") <= msg.payload.nfeat

\* a decision over a full feature list whose sr is 1.0, the sr threshold of
\* the high zone, while c is below 10
DecidedAtSrThreshold ==
  /\ Decided /\ msg.payload.nfeat = NumLeaves
  /\ resp.result.sr = One /\ resp.result.c < 10 * One
  /\ Len(resp.result.actions) = NumLeaves
  /\ Count(resp.result.actions, "MUTATE") >= 1

====
